---- MODULE Spec2Model ----
(***************************************************************************)
(* A model of ttseries' sorted-set time-series engine                      *)
(* (ttseries/ts/sample.py, class RedisSampleTimeSeries).                   *)
(*                                                                         *)
(* A series is one Redis sorted set: a set of <<score, member>> pairs in   *)
(* which every member occurs once.  The score is the timestamp, the member *)
(* is the serialized payload.  Timestamps are floats in the code; only     *)
(* their order, their sign and their truthiness matter to the engine, so   *)
(* they are small integers here (negative, zero and positive).             *)
(***************************************************************************)
EXTENDS Integers, Sequences, FiniteSets

\* ------------------------------------------------------------------ bounds
MaxTs == 1
NumPayloads == 3
max_length == 2
MaxBatch == 3
MaxFeed == 2
\* get_slice's default chunks_size: 10000 in the code (line 180), scaled here to
\* the lengths the series of the model reach.
DefaultChunksSize == 2

Names == {"k1", "k2"}
\* A name validate_key refuses: it holds a suffix reserved for the hash variant.
BadName == "k1:ID"
\* The keys of the remote store that the calls touch.
Keys == Names \cup {BadName}
Stamps == (0 - 1)..MaxTs
Payloads == 1..NumPayloads

\* Python's None, and an optional value that is present.
None == <<>>
Some(x) == <<x>>
OptStamps == {None} \cup {Some(t) : t \in Stamps}

\* ------------------------------------------------------------------- codec
\* serializer.dumps / serializer.loads: bytes are not the value itself.
dumps(p) == <<"bytes", p>>
loads(m) == m[2]

\* --------------------------------------------------- the sorted-set client
\* Redis orders a sorted set by score, equal scores by the member's bytes.
Less(a, b) == a[1] < b[1] \/ (a[1] = b[1] /\ a[2][2] < b[2][2])
zrank_of(S, e) == Cardinality({x \in S : Less(x, e)})

RECURSIVE SortedSeq(_)
SortedSeq(S) ==
    IF S = {} THEN <<>>
    ELSE LET m == CHOOSE x \in S : \A y \in S : x = y \/ Less(x, y)
         IN <<m>> \o SortedSeq(S \ {m})

Reverse(s) == [i \in 1..Len(s) |-> s[Len(s) + 1 - i]]

\* A score bound: a number, or "-inf" / "+inf".
NegInf == [kind |-> "-inf", v |-> 0]
PosInf == [kind |-> "+inf", v |-> 0]
Num(x) == [kind |-> "num", v |-> x]
AtLeast(s, lo) == lo.kind = "-inf" \/ (lo.kind = "num" /\ s >= lo.v)
AtMost(s, hi) == hi.kind = "+inf" \/ (hi.kind = "num" /\ s <= hi.v)
InScore(S, lo, hi) == {e \in S : AtLeast(e[1], lo) /\ AtMost(e[1], hi)}

zcard(S) == Cardinality(S)
zcount(S, lo, hi) == Cardinality(InScore(S, lo, hi))
\* ZADD key score member: a member already stored only changes its score.
zadd(S, score, member) == {e \in S : e[2] # member} \cup {<<score, member>>}
zadd_reply(S, member) == IF \E e \in S : e[2] = member THEN 0 ELSE 1
\* ZREMRANGEBYRANK key min max: ranks count from 0, negative ones from the end.
RankIndex(S, i) == IF i < 0 THEN zcard(S) + i ELSE i
zremrangebyrank(S, lo, hi) ==
    {e \in S : ~(RankIndex(S, lo) <= zrank_of(S, e) /\ zrank_of(S, e) <= RankIndex(S, hi))}
zremrangebyscore(S, lo, hi) == S \ InScore(S, lo, hi)
\* ZRANGEBYSCORE key min max [LIMIT start num]: num < 0 means no limit.
Window(s, start, num) ==
    IF start >= Len(s) THEN <<>>
    ELSE IF num < 0 THEN SubSeq(s, start + 1, Len(s))
    ELSE SubSeq(s, start + 1, IF start + num < Len(s) THEN start + num ELSE Len(s))
zrangebyscore(S, lo, hi, start, num) == Window(SortedSeq(InScore(S, lo, hi)), start, num)
zrevrangebyscore(S, lo, hi, start, num) ==
    Window(Reverse(SortedSeq(InScore(S, lo, hi))), start, num)
\* ZRANK key member: None when the member is not stored.
zrank(S, member) ==
    IF \E e \in S : e[2] = member
    THEN Some(zrank_of(S, CHOOSE e \in S : e[2] = member))
    ELSE None

\* ------------------------------------------------- RedisTSBase (base class)
\* length, count, exist_timestamp: thin wrappers of zcard and zcount.
length(S) == zcard(S)
count(S, lo, hi) == zcount(S, lo, hi)
exist_timestamp(S, t) == zcount(S, Num(t), Num(t)) > 0

\* The instance lock: threading's re-entrant lock, held by one owner.
LockFree == [owner |-> "nobody", depth |-> 0]
CanAcquire(l, t) == l.owner \in {"nobody", t}
Acquire(l, t) == [owner |-> t, depth |-> l.depth + 1]
Release(l, t) == IF l.depth = 1 THEN LockFree ELSE [l EXCEPT !.depth = l.depth - 1]

\* validate_key: the names used here are well-formed series names.
validate_key(name) == name \in Names
\* _add_many_validate: explicit (timestamp, data) pairs are accepted as given.
_add_many_validate(S, pairs) == pairs
\* transaction_pipe: WATCH, MULTI, the queued commands, EXEC.  With no other
\* writer between WATCH and EXEC the transaction commits.
RECURSIVE zadd_many(_, _)
zadd_many(S, pairs) ==
    IF pairs = <<>> THEN S
    ELSE zadd_many(zadd(S, Head(pairs)[1], Head(pairs)[2]), Tail(pairs))
transaction_pipe(S, queued) == zadd_many(S, queued)

\* ------------------------------------------------------- ttseries.utils
\* chunks(seq, n): consecutive pieces of n items, the last one maybe shorter.
RECURSIVE chunks(_, _)
chunks(s, n) ==
    IF s = <<>> THEN <<>>
    ELSE IF Len(s) <= n THEN <<s>>
    ELSE <<SubSeq(s, 1, n)>> \o chunks(SubSeq(s, n + 1, Len(s)), n)

\* ------------------------------------------------------------ the engine
VARIABLES
    store,   \* the remote store: series name -> sorted set
    lock,    \* the instance lock (self._lock)
    last,    \* the call that ran last and what it returned
    hist,    \* the (timestamp, data) pairs add or add_many were given, where logged
    gen,     \* the generator object a get_slice call returned, and its consumer
    threads, \* the calls that threads of the process are in, line by line
    store0   \* the store as it was when those threads made their calls

vars == <<store, lock, last, hist, gen, threads, store0>>

Self == "main"
\* The threads of the process that call the engine at the same time, and a
\* thread that is in no call.
Threads == {"t1", "t2"}
Idle == [op |-> "none", pc |-> "done", timestamp |-> 0, data |-> 0, len |-> 0,
         start_timestamp |-> None, end_timestamp |-> None, items |-> <<>>,
         current_length |-> 0, touched |-> FALSE]
\* Python truthiness of an optional timestamp: None and 0 are false.
Truthy(o) == o # None /\ o[1] # 0

\* The record of a call: the method, the series (or series names), its integer
\* argument (trim's length, add_many's chunks_size), the length the series had
\* before the call, the returned value and whether the call returned.
Call(op, name, names, n, before) ==
    [op |-> op, name |-> name, names |-> names, n |-> n, before |-> before,
     ret |-> None, outcome |-> "returned"]
NoCall == Call("none", "", <<>>, 0, 0)

\* What a method leaves behind: the store, the lock, the returned value, and
\* whether it returned at all ("blocked": it waits for the lock for ever).
Result(st, l, ret, outcome) == [store |-> st, lock |-> l, ret |-> ret, outcome |-> outcome]

\* add without the exist_timestamp check of line 44.
add_unchecked(st, l, name, timestamp, data0) ==
    LET data == dumps(data0)
        S == st[name]
        S1 == IF length(S) = max_length THEN zremrangebyrank(S, 0, 0) ELSE S
    IN  Result([st EXCEPT ![name] = zadd(S1, timestamp, data)], l,
               Some(zadd_reply(S1, data)), "returned")

\* add that evicts after the insert instead of before it.
add_evict_after(st, l, name, timestamp, data0) ==
    LET data == dumps(data0)
        S == st[name]
    IN  IF ~exist_timestamp(S, timestamp)
        THEN LET S1 == zadd(S, timestamp, data)
             IN Result([st EXCEPT ![name] =
                           IF length(S) = max_length THEN zremrangebyrank(S1, 0, 0) ELSE S1],
                       l, Some(zadd_reply(S, data)), "returned")
        ELSE Result(st, l, None, "returned")

\* add that evicts only once the series is longer than max_length.
add_off_by_one(st, l, name, timestamp, data0) ==
    LET data == dumps(data0)
        S == st[name]
    IN  IF ~exist_timestamp(S, timestamp)
        THEN LET S1 == IF length(S) > max_length THEN zremrangebyrank(S, 0, 0) ELSE S
             IN Result([st EXCEPT ![name] = zadd(S1, timestamp, data)], l,
                       Some(zadd_reply(S1, data)), "returned")
        ELSE Result(st, l, None, "returned")

\* add that evicts whenever the series is at least max_length long.
add_evict_at_least(st, l, name, timestamp, data0) ==
    LET data == dumps(data0)
        S == st[name]
    IN  IF ~exist_timestamp(S, timestamp)
        THEN LET S1 == IF length(S) >= max_length THEN zremrangebyrank(S, 0, 0) ELSE S
             IN Result([st EXCEPT ![name] = zadd(S1, timestamp, data)], l,
                       Some(zadd_reply(S1, data)), "returned")
        ELSE Result(st, l, None, "returned")

\* add, lines 41-47.
add(st, l, name, timestamp, data0) ==
    LET data == dumps(data0)
        S == st[name]
    IN  IF ~CanAcquire(l, Self) THEN Result(st, l, None, "blocked")
        ELSE IF ~exist_timestamp(S, timestamp)
        THEN LET S1 == IF length(S) = max_length THEN zremrangebyrank(S, 0, 0) ELSE S
             IN Result([st EXCEPT ![name] = zadd(S1, timestamp, data)], l,
                       Some(zadd_reply(S1, data)), "returned")
        ELSE Result(st, l, None, "returned")

\* add_many that stops after its first chunk.
add_many_first_chunk(st, l, name, timestamp_pairs, chunks_size) ==
    LET items == chunks(timestamp_pairs, chunks_size)
    IN  IF items = <<>> THEN Result(st, l, None, "returned")
        ELSE Result([st EXCEPT ![name] =
                        zadd_many(st[name], [i \in 1..Len(items[1]) |->
                                     <<items[1][i][1], dumps(items[1][i][2])>>])],
                    l, None, "returned")

\* add_many, lines 56-68.
RECURSIVE add_chunks(_, _)
add_chunks(S, items) ==
    IF items = <<>> THEN S
    ELSE LET filter_data == [i \in 1..Len(Head(items)) |->
                                <<Head(items)[i][1], dumps(Head(items)[i][2])>>]
         IN add_chunks(transaction_pipe(S, filter_data), Tail(items))
\* add_many that cuts the series back to max_length once the chunks are in.
add_many_capped(st, l, name, timestamp_pairs, chunks_size) ==
    LET S == add_chunks(st[name], chunks(timestamp_pairs, chunks_size))
    IN  Result([st EXCEPT ![name] =
                   IF length(S) > max_length
                   THEN zremrangebyrank(S, 0, length(S) - max_length - 1) ELSE S],
               l, None, "returned")

add_many(st, l, name, timestamp_pairs, chunks_size) ==
    IF ~validate_key(name) THEN Result(st, l, None, "raised")
    ELSE LET pairs == _add_many_validate(st[name], timestamp_pairs)
         IN Result([st EXCEPT ![name] = add_chunks(st[name], chunks(pairs, chunks_size))],
                   l, None, "returned")

\* get, lines 113-118.
use_numpy == FALSE
get(st, name, timestamp) ==
    LET result == zrangebyscore(st[name], Num(timestamp), Num(timestamp), 0, 0 - 1)
    IN  IF result # <<>>
        THEN IF use_numpy THEN None ELSE Some(loads(result[1][2]))
        ELSE None

\* delete, lines 131-139.
delete(st, l, name, start_timestamp, end_timestamp) ==
    IF ~CanAcquire(l, Self) THEN Result(st, l, None, "blocked")
    ELSE IF Truthy(start_timestamp) \/ Truthy(end_timestamp)
    THEN LET lo == IF start_timestamp = None THEN NegInf ELSE Num(start_timestamp[1])
             hi == IF end_timestamp = None THEN PosInf ELSE Num(end_timestamp[1])
         IN Result([st EXCEPT ![name] = zremrangebyscore(st[name], lo, hi)], l,
                   Some(zcount(st[name], lo, hi)), "returned")
    ELSE Result([st EXCEPT ![name] = {}], l,
                Some(IF st[name] = {} THEN 0 ELSE 1), "returned")

\* remove_many, lines 151-159.
RemoveChunk == 10000
RECURSIVE delete_each(_, _, _, _, _)
delete_each(r, keys, start_timestamp, end_timestamp, i) ==
    IF i > Len(keys) \/ r.outcome # "returned" THEN r
    ELSE delete_each(delete(r.store, r.lock, keys[i], start_timestamp, end_timestamp),
                     keys, start_timestamp, end_timestamp, i + 1)
RECURSIVE remove_chunks(_, _, _, _)
remove_chunks(r, chunks_data, start_timestamp, end_timestamp) ==
    IF chunks_data = <<>> \/ r.outcome # "returned" THEN r
    ELSE LET chunk_keys == Head(chunks_data)
             r1 == IF Truthy(start_timestamp) \/ Truthy(end_timestamp)
                   THEN delete_each(r, chunk_keys, start_timestamp, end_timestamp, 1)
                   ELSE [r EXCEPT !.store =
                            [k \in DOMAIN r.store |-> IF \E i \in 1..Len(chunk_keys) : chunk_keys[i] = k
                                             THEN {} ELSE r.store[k]]]
         IN remove_chunks(r1, Tail(chunks_data), start_timestamp, end_timestamp)
\* remove_many that deletes only the first key it is given.
remove_many_first_key(st, l, names, start_timestamp, end_timestamp) ==
    Result([k \in DOMAIN st |-> IF names # <<>> /\ names[1] = k THEN {} ELSE st[k]],
           l, None, "returned")

remove_many(st, l, names, start_timestamp, end_timestamp) ==
    [remove_chunks(Result(st, l, None, "returned"), chunks(names, RemoveChunk),
                   start_timestamp, end_timestamp) EXCEPT !.ret = None]

\* trim that keeps the newest `length` elements.
trim_keep_newest(st, l, name, length0) ==
    LET current_length == length(st[name])
    IN  IF current_length > length0 /\ length0 > 0
        THEN Result([st EXCEPT ![name] =
                        zremrangebyrank(st[name], 0, current_length - length0 - 1)],
                    l, None, "returned")
        ELSE IF length0 >= current_length
        THEN Result([st EXCEPT ![name] = {}], l, None, "returned")
        ELSE Result(st, l, None, "returned")

\* trim whose second branch tests length > current_length.
trim_strict(st, l, name, length0) ==
    LET current_length == length(st[name])
    IN  IF current_length > length0 /\ length0 > 0
        THEN Result([st EXCEPT ![name] = zremrangebyrank(st[name], 0, length0 - 1)],
                    l, None, "returned")
        ELSE IF length0 > current_length
        THEN Result([st EXCEPT ![name] = {}], l, None, "returned")
        ELSE Result(st, l, None, "returned")

\* trim without the length > 0 guard of line 172.
trim_no_zero_guard(st, l, name, length0) ==
    LET current_length == length(st[name])
    IN  IF current_length > length0
        THEN Result([st EXCEPT ![name] = zremrangebyrank(st[name], 0, length0 - 1)],
                    l, None, "returned")
        ELSE IF length0 >= current_length
        THEN Result([st EXCEPT ![name] = {}], l, None, "returned")
        ELSE Result(st, l, None, "returned")

\* trim, lines 168-177.
trim(st, l, name, length0) ==
    LET len == length0
        current_length == length(st[name])
    IN  IF ~CanAcquire(l, Self) THEN Result(st, l, None, "blocked")
        ELSE LET held == Acquire(l, Self)
             IN IF current_length > len /\ len > 0
                THEN Result([st EXCEPT ![name] = zremrangebyrank(st[name], 0, len - 1)],
                            Release(held, Self), None, "returned")
                ELSE IF len >= current_length
                THEN LET r == delete(st, held, name, None, None)
                     IN IF r.outcome = "blocked" THEN Result(st, held, None, "blocked")
                        ELSE Result(r.store, Release(held, Self), None, "returned")
                ELSE Result(st, Release(held, Self), None, "returned")

\* exists (RedisTSBase): Redis keeps no empty sorted set.
exists(st, name) == st[name] # {}

\* get_slice, lines 179-249: a generator function.  Calling it runs nothing;
\* each next() or send() of the consumer runs it to its next yield.
\*   pc: "none" (no generator), "created", "page" (suspended at the yield of
\*   line 225), "all" (suspended at the yield of line 247), "closed".
\*   pages: what the consumer has received; sends: how often it used send().
NoGenerator ==
    [pc |-> "none", name |-> "", start_timestamp |-> None, end_timestamp |-> None,
     asc |-> TRUE, chunks_size |-> 0, total |-> 0, split_size |-> 0, i |-> 0,
     pages |-> <<>>, sends |-> 0, status |-> ""]
get_slice(name, start_timestamp, end_timestamp, asc, chunks_size) ==
    [NoGenerator EXCEPT !.pc = "created", !.name = name,
                        !.start_timestamp = start_timestamp,
                        !.end_timestamp = end_timestamp,
                        !.asc = asc, !.chunks_size = chunks_size]

\* Lines 197-200.
LowBound(g) == IF g.start_timestamp = None THEN NegInf ELSE Num(g.start_timestamp[1])
HighBound(g) == IF g.end_timestamp = None THEN PosInf ELSE Num(g.end_timestamp[1])
\* zrange_func that is the ascending query whatever asc says.
zrange_func_ascending(g, S, start, num) ==
    zrangebyscore(S, LowBound(g), HighBound(g), start, num)

\* Lines 192-195 and 218-220, 239-241.
zrange_func(g, S, start, num) ==
    IF g.asc THEN zrangebyscore(S, LowBound(g), HighBound(g), start, num)
    ELSE zrevrangebyscore(S, LowBound(g), HighBound(g), start, num)
\* Lines 225-227, 247-249: (timestamp, loads(data)) of every reply item.
Decoded(results) == [k \in 1..Len(results) |-> <<results[k][1], loads(results[k][2])>>]

\* Line 218-227: one window of the paginated branch, yielded.
yield_page(g, S, i, start) ==
    [g EXCEPT !.pc = "page", !.i = i,
              !.pages = Append(g.pages, Decoded(zrange_func(g, S, start, g.chunks_size)))]
raise(g, error) == [g EXCEPT !.pc = "closed", !.status = error]

\* The first next(): lines 192-227 or 192-249, up to the first yield.
first_next(g, S) ==
    LET total == count(S, LowBound(g), HighBound(g))
        g1 == [g EXCEPT !.total = total]
    IN  IF total > g.chunks_size
        THEN LET g2 == [g1 EXCEPT !.split_size = total \div g.chunks_size]
             IN yield_page(g2, S, 0, 0)
        ELSE [g1 EXCEPT !.pc = "all",
                        !.pages = Append(g.pages, Decoded(zrange_func(g, S, 0, 0 - 1)))]

\* Resuming at line 225 with the value the consumer sent (None for next()):
\* lines 225-230, then the next round of the loop of line 211.
\* Line 229 subscripts the sent value: None is not subscriptable.  A sent
\* page's last item is a (timestamp, data) tuple, whose bytes are no member of
\* a series of payloads: zrank replies None, and line 216 adds 1 to it.
resume_page(g, S, sent) ==
    IF sent = None THEN raise(g, "TypeError")
    ELSE IF sent[1] = <<>> THEN raise(g, "IndexError")
    ELSE LET index == None
         IN IF g.i + 1 < g.split_size
            THEN IF index = None THEN raise(g, "TypeError")
                 ELSE yield_page(g, S, g.i + 1, index[1] + 1)
            ELSE raise(g, "StopIteration")

\* Resuming at line 247: the function ends.
resume_all(g) == raise(g, "StopIteration")

resume(g, S, sent) ==
    IF g.pc = "created" THEN first_next(g, S)
    ELSE IF g.pc = "page" THEN resume_page(g, S, sent)
    ELSE resume_all(g)

\* get_slice(name) with its defaults (line 180), consumed by iteration until
\* the generator ends or raises: for page in get_slice(name).
RECURSIVE drain(_, _)
drain(g, S) == IF g.pc = "closed" THEN g ELSE drain(resume(g, S, None), S)
full_slice(st, name) ==
    drain(get_slice(name, None, None, TRUE, DefaultChunksSize), st[name])

\* The items of a sequence of sequences, in order.
RECURSIVE Concat(_)
Concat(pages) == IF pages = <<>> THEN <<>> ELSE Head(pages) \o Concat(Tail(pages))

\* iter, lines 267-272: a generator function; what a consumer that iterates
\* it to its end receives.  zscan_iter yields (member, score) items.
iter(st, name) ==
    IF use_numpy
    THEN LET items == SortedSeq(st[name])
             yielded == [k \in 1..Len(items) |->
                           IF use_numpy THEN <<>>
                           ELSE <<<<items[k][1], loads(items[k][2])>>>>]
         IN Concat(yielded)
    ELSE <<>>

\* ------------------------------------------------------------- the calls
\* The arguments the calls are made with.
Pairs == Stamps \X Payloads
Distinct(b) == \A i, j \in 1..Len(b) : i # j => (b[i][1] # b[j][1] /\ b[i][2] # b[j][2])
Batches == {b \in UNION {[1..k -> Pairs] : k \in 0..MaxBatch} : Distinct(b)}
ChunkSizes == 1..MaxBatch
\* A feed: a short batch whose pairs come in timestamp order.
Feeds == {b \in Batches : /\ Len(b) <= MaxFeed
                          /\ \A i, j \in 1..Len(b) : i < j => b[i][1] < b[j][1]}
\* Feeds go in one pair per transaction or with add_many's default chunks_size.
DefaultAddChunksSize == 2000
FeedChunkSizes == {1, DefaultAddChunksSize}
Lengths == (0 - 1)..(NumPayloads + 1)
NameSeqs == {<<>>} \cup {<<a>> : a \in Names}
               \cup {q \in Names \X Names : q[1] # q[2]}

Init ==
    /\ store = [k \in Keys |-> {}]
    /\ lock = LockFree
    /\ last = NoCall
    /\ hist = <<>>
    /\ gen = NoGenerator
    /\ threads = [t \in Threads |-> Idle]
    /\ store0 = store

\* A caller that waits for the lock for ever makes no further call.
Running == last.outcome # "blocked"

Finish(r, call) ==
    /\ store' = r.store
    /\ lock' = r.lock
    /\ last' = [call EXCEPT !.ret = r.ret, !.outcome = r.outcome]

AddCall(name, timestamp, data) ==
    /\ Running
    /\ Finish(add(store, lock, name, timestamp, data),
              Call("add", name, <<name>>, 0, length(store[name])))

AddManyCall(name, timestamp_pairs, chunks_size) ==
    /\ Running
    /\ Finish(add_many(store, lock, name, timestamp_pairs, chunks_size),
              Call("add_many", name, <<name>>, chunks_size, length(store[name])))

GetCall(name, timestamp) ==
    /\ Running
    /\ Finish(Result(store, lock, get(store, name, timestamp), "returned"),
              Call("get", name, <<name>>, 0, length(store[name])))

DeleteCall(name, start_timestamp, end_timestamp) ==
    /\ Running
    /\ Finish(delete(store, lock, name, start_timestamp, end_timestamp),
              Call("delete", name, <<name>>, 0, length(store[name])))

RemoveManyCall(names, start_timestamp, end_timestamp) ==
    /\ Running
    /\ Finish(remove_many(store, lock, names, start_timestamp, end_timestamp),
              Call("remove_many", "", names, 0,
                   Cardinality({k \in Names : exists(store, k)
                                   /\ \E i \in 1..Len(names) : names[i] = k})))

TrimCall(name, len) ==
    /\ Running
    /\ Finish(trim(store, lock, name, len),
              Call("trim", name, <<name>>, len, length(store[name])))

IterCall(name) ==
    /\ Running
    /\ Finish(Result(store, lock, Some(iter(store, name)), "returned"),
              Call("iter", name, <<name>>, 0, length(store[name])))

\* ------------------------------------------- one series, every operation
Key == "k1"

Add == \E timestamp \in Stamps, data \in Payloads :
           AddCall(Key, timestamp, data) /\ UNCHANGED <<hist, gen, threads, store0>>
AddMany == \E timestamp_pairs \in Feeds, chunks_size \in FeedChunkSizes :
               AddManyCall(Key, timestamp_pairs, chunks_size) /\ UNCHANGED <<hist, gen, threads, store0>>
Get == \E timestamp \in Stamps : GetCall(Key, timestamp) /\ UNCHANGED <<hist, gen, threads, store0>>
Delete == \E start_timestamp \in OptStamps, end_timestamp \in OptStamps :
              DeleteCall(Key, start_timestamp, end_timestamp) /\ UNCHANGED <<hist, gen, threads, store0>>
RemoveMany == \E names \in NameSeqs, start_timestamp \in OptStamps, end_timestamp \in OptStamps :
                  RemoveManyCall(names, start_timestamp, end_timestamp) /\ UNCHANGED <<hist, gen, threads, store0>>
Trim == \E len \in Lengths : TrimCall(Key, len) /\ UNCHANGED <<hist, gen, threads, store0>>

Next == Add \/ AddMany \/ Get \/ Delete \/ RemoveMany \/ Trim

Spec == Init /\ [][Next]_vars

\* ------------------------------ one series, adds only, every add logged
MaxHist == max_length + 1
AddLogged ==
    \E timestamp \in Stamps, data \in Payloads :
        /\ Len(hist) < MaxHist
        /\ AddCall(Key, timestamp, data)
        /\ hist' = Append(hist, <<timestamp, data>>)
        /\ UNCHANGED <<gen, threads, store0>>

NextLog == AddLogged
SpecLog == Init /\ [][NextLog]_vars

\* ---------------------------------------- several series, add and remove
AddAny == \E name \in Names, timestamp \in Stamps, data \in Payloads :
              AddCall(name, timestamp, data) /\ UNCHANGED <<hist, gen, threads, store0>>
RemoveManyKeys == \E names \in NameSeqs :
                      RemoveManyCall(names, None, None) /\ UNCHANGED <<hist, gen, threads, store0>>

NextKeys == AddAny \/ RemoveManyKeys
SpecKeys == Init /\ [][NextKeys]_vars

\* ------------------------------------ one series, loaded and then scanned
Load == \E timestamp_pairs \in Feeds, chunks_size \in FeedChunkSizes :
            /\ gen.pc = "none"
            /\ AddManyCall(Key, timestamp_pairs, chunks_size)
            /\ UNCHANGED <<hist, gen, threads, store0>>
GetSlice ==
    \E start_timestamp \in OptStamps, end_timestamp \in OptStamps,
       asc \in BOOLEAN, chunks_size \in ChunkSizes :
        /\ Running
        /\ gen.pc = "none"
        /\ gen' = get_slice(Key, start_timestamp, end_timestamp, asc, chunks_size)
        /\ last' = Call("get_slice", Key, <<Key>>, chunks_size, length(store[Key]))
        /\ UNCHANGED <<store, lock, hist, threads, store0>>
\* The consumer iterates: next(generator).
NextPage ==
    /\ gen.pc \in {"created", "page", "all"}
    /\ gen' = resume(gen, store[gen.name], None)
    /\ UNCHANGED <<store, lock, last, hist, threads, store0>>
\* The consumer sends the page it received back: generator.send(page).
SendPage ==
    /\ gen.pc \in {"page", "all"}
    /\ gen' = [resume(gen, store[gen.name], Some(gen.pages[Len(gen.pages)]))
                 EXCEPT !.sends = 1]
    /\ UNCHANGED <<store, lock, last, hist, threads, store0>>

NextSlice == Load \/ GetSlice \/ NextPage \/ SendPage
SpecSlice == Init /\ [][NextSlice]_vars

\* ------------------- one empty series, bulk-loaded, the batch logged
BulkLoad == \E timestamp_pairs \in Batches, chunks_size \in ChunkSizes :
                /\ store[Key] = {}
                /\ AddManyCall(Key, timestamp_pairs, chunks_size)
                /\ hist' = timestamp_pairs
                /\ UNCHANGED <<gen, threads, store0>>

NextBulk == BulkLoad
SpecBulk == Init /\ [][NextBulk]_vars

\* --------------------------------- one series, filled and then iterated
Fill == \E timestamp_pairs \in Feeds, chunks_size \in FeedChunkSizes :
            AddManyCall(Key, timestamp_pairs, chunks_size) /\ UNCHANGED <<hist, gen, threads, store0>>
Iter == IterCall(Key) /\ UNCHANGED <<hist, gen, threads, store0>>

NextIter == Fill \/ Iter
SpecIter == Init /\ [][NextIter]_vars

\* ------------------------------- writes under a valid and an invalid name
WriteNames == {Key, BadName}
AddNamed == \E name \in WriteNames, timestamp \in Stamps, data \in Payloads :
                AddCall(name, timestamp, data) /\ UNCHANGED <<hist, gen, threads, store0>>
AddManyNamed == \E name \in WriteNames, timestamp_pairs \in Feeds, chunks_size \in FeedChunkSizes :
                    AddManyCall(name, timestamp_pairs, chunks_size) /\ UNCHANGED <<hist, gen, threads, store0>>

NextNames == AddNamed \/ AddManyNamed
SpecNames == Init /\ [][NextNames]_vars

\* ------------- one series, bulk feeds and adds of payloads old and new
\* Enough payloads for one that a series longer than max_length does not hold.
WidePayloads == 1..(NumPayloads + 1)
\* Bulk feeds take the series above max_length; from there on it is added to.
Feed == \E timestamp_pairs \in Feeds :
            /\ length(store[Key]) <= max_length
            /\ AddManyCall(Key, timestamp_pairs, DefaultAddChunksSize)
            /\ UNCHANGED <<hist, gen, threads, store0>>
AddWide == \E timestamp \in Stamps, data \in WidePayloads :
               AddCall(Key, timestamp, data) /\ UNCHANGED <<hist, gen, threads, store0>>

NextGrow == Feed \/ AddWide
SpecGrow == Init /\ [][NextGrow]_vars

\* ------------------------------------------ threads of one engine instance
\* Two threads of the process call the engine on series Key at the same time.
\* A step is one statement of the method: taking or releasing the lock, or
\* one call to the store.  pc names the line the thread is about to run.
AddThread(timestamp, data) ==
    [Idle EXCEPT !.op = "add", !.pc = "a43", !.timestamp = timestamp, !.data = data]
TrimThread(len) == [Idle EXCEPT !.op = "trim", !.pc = "t169", !.len = len]
DeleteThread(start_timestamp, end_timestamp) ==
    [Idle EXCEPT !.op = "delete", !.pc = "d131",
                 !.start_timestamp = start_timestamp, !.end_timestamp = end_timestamp]
\* add_many past lines 56-58: the chunks it is about to loop over.
AddManyThread(timestamp_pairs, chunks_size) ==
    [Idle EXCEPT !.op = "add_many", !.pc = "m60",
                 !.items = chunks(_add_many_validate({}, timestamp_pairs), chunks_size)]

\* A series that adds alone have built: no longer than max_length, no two
\* elements on one score, no member twice.
AddBuilt ==
    {S \in SUBSET {<<t, dumps(p)>> : t \in Stamps, p \in Payloads} :
        /\ Cardinality(S) <= max_length
        /\ \A a, b \in S : a # b => (a[1] # b[1] /\ a[2] # b[2])}

InitThreads(calls1, calls2, series) ==
    /\ store \in {[k \in Keys |-> IF k = Key THEN S ELSE {}] : S \in series}
    /\ lock = LockFree
    /\ last = NoCall
    /\ hist = <<>>
    /\ gen = NoGenerator
    /\ threads \in {[t \in Threads |-> IF t = "t1" THEN a ELSE b] : a \in calls1, b \in calls2}
    /\ store0 = store

\* Thread t moves on to line pc without touching the store.
Goto(t, pc) ==
    /\ threads' = [threads EXCEPT ![t].pc = pc]
    /\ UNCHANGED store
\* Thread t leaves series Key as S1 and moves on to line pc.  A write that
\* changes the series marks every transaction that watches it.
Write(t, S1, pc) ==
    /\ store' = [store EXCEPT ![Key] = S1]
    /\ threads' = [u \in Threads |->
                     IF u = t THEN [threads[u] EXCEPT !.pc = pc]
                     ELSE IF S1 # store[Key] /\ threads[u].pc = "m68"
                     THEN [threads[u] EXCEPT !.touched = TRUE]
                     ELSE threads[u]]
\* with self._lock: entering and leaving.
Enter(t, pc) ==
    /\ CanAcquire(lock, t)
    /\ lock' = Acquire(lock, t)
    /\ Goto(t, pc)
Leave(t, pc) ==
    /\ lock' = Release(lock, t)
    /\ Goto(t, pc)
Untouched == UNCHANGED <<last, hist, gen, store0>>

\* Enter that does not wait for the lock.
AddAcquire_unlocked(t) ==
    /\ threads[t].pc = "a43"
    /\ lock' = Acquire(lock, t)
    /\ Goto(t, "a44")
    /\ Untouched

\* add, line 43 to line 47 and out of the with block.
AddAcquire(t) ==
    /\ threads[t].pc = "a43"
    /\ Enter(t, "a44")
    /\ Untouched
AddExists(t) ==
    /\ threads[t].pc = "a44"
    /\ Goto(t, IF exist_timestamp(store[Key], threads[t].timestamp) THEN "a_exit" ELSE "a45")
    /\ UNCHANGED lock /\ Untouched
AddLength(t) ==
    /\ threads[t].pc = "a45"
    /\ Goto(t, IF length(store[Key]) = max_length THEN "a46" ELSE "a47")
    /\ UNCHANGED lock /\ Untouched
AddEvict(t) ==
    /\ threads[t].pc = "a46"
    /\ Write(t, zremrangebyrank(store[Key], 0, 0), "a47")
    /\ UNCHANGED lock /\ Untouched
AddInsert(t) ==
    /\ threads[t].pc = "a47"
    /\ Write(t, zadd(store[Key], threads[t].timestamp, dumps(threads[t].data)), "a_exit")
    /\ UNCHANGED lock /\ Untouched
AddRelease(t) ==
    /\ threads[t].pc = "a_exit"
    /\ Leave(t, "done")
    /\ Untouched

\* trim, line 169 to line 177 and out of the with block.
TrimLength(t) ==
    /\ threads[t].pc = "t169"
    /\ threads' = [threads EXCEPT ![t].current_length = length(store[Key]), ![t].pc = "t171"]
    /\ UNCHANGED <<store, lock>> /\ Untouched
TrimAcquire(t) ==
    /\ threads[t].pc = "t171"
    /\ Enter(t, "t172")
    /\ Untouched
TrimBranch(t) ==
    /\ threads[t].pc = "t172"
    /\ LET len == threads[t].len
           current_length == threads[t].current_length
       IN IF current_length > len /\ len > 0
          THEN Write(t, zremrangebyrank(store[Key], 0, len - 1), "t_exit")
          ELSE IF len >= current_length
          THEN Goto(t, "d131")
          ELSE Goto(t, "t_exit")
    /\ UNCHANGED lock /\ Untouched
TrimRelease(t) ==
    /\ threads[t].pc = "t_exit"
    /\ Leave(t, "done")
    /\ Untouched

\* delete, line 131 to line 139 and out of the with block; trim's self.delete
\* (line 177) runs the same lines and returns into trim.
DeleteAcquire(t) ==
    /\ threads[t].pc = "d131"
    /\ Enter(t, "d132")
    /\ Untouched
DeleteRun(t) ==
    /\ threads[t].pc = "d132"
    /\ Write(t, delete(store, LockFree, Key, threads[t].start_timestamp,
                       threads[t].end_timestamp).store[Key], "d_exit")
    /\ UNCHANGED lock /\ Untouched
DeleteRelease(t) ==
    /\ threads[t].pc = "d_exit"
    /\ Leave(t, IF threads[t].op = "trim" THEN "t_exit" ELSE "done")
    /\ Untouched

\* Exec that commits the first pair of the chunk alone when the watched series
\* was written.
Exec_partial(t) ==
    /\ threads[t].pc = "m68"
    /\ LET item == Head(threads[t].items)
           filter_data == [i \in 1..Len(item) |-> <<item[i][1], dumps(item[i][2])>>]
           S1 == IF threads[t].touched
                 THEN transaction_pipe(store[Key], SubSeq(filter_data, 1, 1))
                 ELSE transaction_pipe(store[Key], filter_data)
       IN /\ store' = [store EXCEPT ![Key] = S1]
          /\ threads' = [threads EXCEPT ![t].items = Tail(threads[t].items),
                                        ![t].pc = "m60"]
          /\ last' = [Call("exec", Key, <<Key>>, Len(item), length(store[Key]))
                        EXCEPT !.outcome = IF threads[t].touched THEN "aborted"
                                           ELSE "committed"]
    /\ UNCHANGED <<lock, hist, gen, store0>>

\* add_many, lines 60-68, one chunk per round: transaction_pipe watches the
\* series, pipe_func queues one zadd of every pair of the chunk, and the
\* transaction commits unless the series was written since the watch.  last
\* records each transaction: its number of pairs and whether it committed.
Watch(t) ==
    /\ threads[t].pc = "m60"
    /\ threads' = IF threads[t].items = <<>>
                  THEN [threads EXCEPT ![t].pc = "done"]
                  ELSE [threads EXCEPT ![t].touched = FALSE, ![t].pc = "m68"]
    /\ UNCHANGED <<store, lock>> /\ Untouched
Exec(t) ==
    /\ threads[t].pc = "m68"
    /\ LET item == Head(threads[t].items)
           filter_data == [i \in 1..Len(item) |-> <<item[i][1], dumps(item[i][2])>>]
           S1 == IF threads[t].touched THEN store[Key]
                 ELSE transaction_pipe(store[Key], filter_data)
       IN /\ store' = [store EXCEPT ![Key] = S1]
          /\ threads' = [threads EXCEPT ![t].items = Tail(threads[t].items),
                                        ![t].pc = "m60"]
          /\ last' = [Call("exec", Key, <<Key>>, Len(item), length(store[Key]))
                        EXCEPT !.outcome = IF threads[t].touched THEN "aborted"
                                           ELSE "committed"]
    /\ UNCHANGED <<lock, hist, gen, store0>>

\* Two threads in add.
AddThreads == {AddThread(timestamp, data) : timestamp \in Stamps, data \in Payloads}
InitAdds == InitThreads(AddThreads, AddThreads, AddBuilt)
NextAdds == \E t \in Threads :
                \/ AddAcquire(t) \/ AddExists(t) \/ AddLength(t)
                \/ AddEvict(t) \/ AddInsert(t) \/ AddRelease(t)
SpecAdds == InitAdds /\ [][NextAdds]_vars

\* One thread in trim, the other in add or in delete.
TrimThreads == {TrimThread(len) : len \in Lengths}
DeleteThreads == {DeleteThread(start_timestamp, end_timestamp) :
                     start_timestamp \in OptStamps, end_timestamp \in OptStamps}
InitTrim == InitThreads(TrimThreads, AddThreads \cup DeleteThreads, AddBuilt)
NextTrim == \E t \in Threads :
                \/ TrimLength(t) \/ TrimAcquire(t) \/ TrimBranch(t) \/ TrimRelease(t)
                \/ DeleteAcquire(t) \/ DeleteRun(t) \/ DeleteRelease(t)
                \/ AddAcquire(t) \/ AddExists(t) \/ AddLength(t)
                \/ AddEvict(t) \/ AddInsert(t) \/ AddRelease(t)
SpecTrim == InitTrim /\ [][NextTrim]_vars

\* One thread in add_many, the other in add: a writer of the watched series.
BulkThreads == {AddManyThread(timestamp_pairs, chunks_size) :
                   timestamp_pairs \in Feeds, chunks_size \in FeedChunkSizes}
\* The series the two start on: empty, or of one element.
Short == {S \in AddBuilt : Cardinality(S) <= 1}
InitWatch == InitThreads(BulkThreads, AddThreads, Short)
NextWatch == \E t \in Threads :
                 \/ Watch(t) \/ Exec(t)
                 \/ AddAcquire(t) \/ AddExists(t) \/ AddLength(t)
                 \/ AddEvict(t) \/ AddInsert(t) \/ AddRelease(t)
SpecWatch == InitWatch /\ [][NextWatch]_vars

\* ================================================================ claims
Series == store[Key]

\* C2. Duplicate timestamp: add(name, T, P') on a series that already holds an
\* element scored T changes nothing (no insert, no eviction, also at
\* max_length), and get(name, T) returns what it returned before.
C2_DuplicateTimestampNoOp ==
    [][last'.op = "add" =>
       (\A timestamp \in Stamps, data \in Payloads :
          (AddCall(Key, timestamp, data) /\ exist_timestamp(Series, timestamp))
          => /\ store' = store
             /\ get(store', Key, timestamp) = get(store, Key, timestamp)
             /\ get(store', Key, timestamp) # None)]_vars
\* A duplicate-timestamp add has run on a full series.
C2_Witness ==
    /\ last.op = "add" /\ last.ret = None
    /\ last.before = max_length /\ length(Series) = max_length

\* C3 as stated: get(name, T) right after add(name, T, P) returns P, whatever
\* the series held before.
C3_RoundTripAnyState ==
    [][last'.op = "add" =>
       (\A timestamp \in Stamps, data \in Payloads :
          AddCall(Key, timestamp, data) => get(store', Key, timestamp) = Some(data))]_vars
\* C3 amended: get(name, T) right after add(name, T, P) returns P when no
\* element of the series was scored T before the call.
C3_RoundTripFreshTimestamp ==
    [][last'.op = "add" =>
       (\A timestamp \in Stamps, data \in Payloads :
          (AddCall(Key, timestamp, data) /\ ~exist_timestamp(Series, timestamp))
          => get(store', Key, timestamp) = Some(data))]_vars
\* An add has inserted a new member into a full series.
C3_Witness ==
    /\ last.op = "add" /\ last.ret = Some(1)
    /\ last.before = max_length /\ length(Series) = max_length

\* The elements of S that n removals of the lowest-scored element leave.
Newest(S, n) == {e \in S : Cardinality({x \in S : Less(e, x)}) < n}
Oldest(S, n) == {e \in S : Cardinality({x \in S : Less(x, e)}) < n}

\* C4 as stated: trim(name, L) with C > L > 0 leaves the L highest-scored
\* elements.
C4_TrimKeepsNewestL ==
    [][last'.op = "trim" =>
       (\A len \in Lengths :
          (TrimCall(Key, len) /\ length(Series) > len /\ len > 0)
          => /\ length(store'[Key]) = len
             /\ store'[Key] = Newest(Series, len))]_vars
\* C4 amended: trim(name, L) with C > L > 0 removes exactly the L
\* lowest-scored elements and leaves the C - L highest-scored ones.
C4_TrimRemovesOldestL ==
    [][last'.op = "trim" =>
       (\A len \in Lengths :
          (TrimCall(Key, len) /\ length(Series) > len /\ len > 0)
          => /\ length(store'[Key]) = length(Series) - len
             /\ store'[Key] = Series \ Oldest(Series, len)
             /\ store'[Key] = Newest(Series, length(Series) - len))]_vars
\* trim(name, 1) has run on a series of three elements.
C4_Witness ==
    /\ last.op = "trim" /\ last.n = 1 /\ last.before = 3
    /\ length(Series) = 2

\* Whether score s lies in [t0, t1], a missing bound being infinite.
Within(s, t0, t1) == (t0 = None \/ t0[1] <= s) /\ (t1 = None \/ s <= t1[1])

\* C5. delete(name, t0, t1) with a range (at least one bound given, t0 <= t1,
\* zero and negative bounds included) removes exactly the elements scored in
\* [t0, t1]: the slice of the range is empty afterwards and every other
\* element is kept.
C5_RangeDeleteExact ==
    [][last'.op = "delete" =>
       (\A t0 \in OptStamps, t1 \in OptStamps :
          (/\ DeleteCall(Key, t0, t1)
           /\ (t0 # None \/ t1 # None)
           /\ (t0 # None /\ t1 # None => t0[1] <= t1[1]))
          => store'[Key] = {e \in Series : ~Within(e[1], t0, t1)})]_vars

C8_TrimZeroDeletes ==
    [][last'.op = "trim" =>
       ((TrimCall(Key, 0) /\ Series # {}) => store'[Key] = {})]_vars
\* C8 amended: trim(name, 0) on a non-empty series removes nothing.
C8_TrimZeroKeeps ==
    [][last'.op = "trim" =>
       ((TrimCall(Key, 0) /\ Series # {}) => store' = store)]_vars
\* trim(name, 0) has run on a non-empty series.
C8_Witness ==
    /\ last.op = "trim" /\ last.n = 0 /\ last.before >= 1
    /\ length(Series) = last.before

\* The logged adds have distinct timestamps and distinct payloads.
DistinctLog == Distinct(hist)
MinStamp(h) == CHOOSE t \in {h[i][1] : i \in 1..Len(h)} :
                   \A i \in 1..Len(h) : t <= h[i][1]
LastAdd == hist[Len(hist)]

\* C1 as stated (checked under SpecLog): starting empty, adds with distinct
\* timestamps and payloads never make the series longer than max_length; after
\* max_length + 1 of them the length is max_length, get of the smallest
\* inserted timestamp returns nothing and get of the last inserted timestamp
\* returns its payload.
C1_CapacityAsStated ==
    DistinctLog =>
        /\ length(Series) <= max_length
        /\ Len(hist) = max_length + 1 =>
              /\ length(Series) = max_length
              /\ get(store, Key, MinStamp(hist)) = None
              /\ get(store, Key, LastAdd[1]) = Some(LastAdd[2])
\* C1 amended: the same, the absent element being the one with the smallest
\* timestamp among the first max_length inserted.
C1_Capacity ==
    DistinctLog =>
        /\ length(Series) <= max_length
        /\ Len(hist) = max_length + 1 =>
              /\ length(Series) = max_length
              /\ get(store, Key, MinStamp(SubSeq(hist, 1, max_length))) = None
              /\ get(store, Key, LastAdd[1]) = Some(LastAdd[2])
\* max_length + 1 adds with distinct timestamps and payloads have run, the
\* last of them evicting.
C1_Witness ==
    /\ DistinctLog /\ Len(hist) = max_length + 1
    /\ last.op = "add" /\ last.before = max_length /\ last.ret = Some(1)

\* Every element of S scored in the generator's range, as (timestamp, payload),
\* ascending by score or, when asc is false, descending.
InRangeOrdered(g, S) ==
    LET R == {e \in S : Within(e[1], g.start_timestamp, g.end_timestamp)}
        up == SortedSeq(R)
        ordered == IF g.asc THEN up ELSE Reverse(up)
    IN  [k \in 1..Len(ordered) |-> <<ordered[k][1], ordered[k][2][2]>>]

\* C6 (checked under SpecSlice, where nothing writes during a scan and
\* members are unique): a consumer that iterates a paginated get_slice to its
\* end has received every in-range element exactly once, in order.
C6_PaginatedSliceComplete ==
    (gen.pc = "closed" /\ gen.sends = 0 /\ gen.total > gen.chunks_size)
    => /\ gen.status = "StopIteration"
       /\ Concat(gen.pages) = InRangeOrdered(gen, store[gen.name])

\* C9 (checked under SpecKeys): remove_many(names) without a range leaves no
\* named series in existence and every other series with the same elements
\* and the same full slice.
C9_RemoveManyExact ==
    [][last'.op = "remove_many" =>
       (\A names \in NameSeqs :
          RemoveManyCall(names, None, None)
          => \A k \in Names :
                IF \E i \in 1..Len(names) : names[i] = k
                THEN ~exists(store', k)
                ELSE /\ store'[k] = store[k]
                     /\ full_slice(store', k) = full_slice(store, k))]_vars
\* remove_many(("k1",)) has deleted series k1 while series k2 holds elements.
C9_Witness ==
    /\ last.op = "remove_many" /\ last.names = <<"k1">> /\ last.before = 1
    /\ ~exists(store, "k1") /\ length(store["k2"]) = max_length

\* The pairs of a batch, ascending by timestamp.
RECURSIVE ByTimestamp(_)
ByTimestamp(P) ==
    IF P = {} THEN <<>>
    ELSE LET m == CHOOSE x \in P : \A y \in P : x[1] <= y[1]
         IN <<m>> \o ByTimestamp(P \ {m})
PairSet(b) == {b[i] : i \in 1..Len(b)}

\* C10 (checked under SpecBulk, where hist is the batch of the call): add_many
\* of a batch with distinct timestamps and payloads into an empty series gives
\* the same series for every chunk size, and iterating the full slice returns
\* every pair of the batch, sorted by timestamp.
C10_ChunkSizeIndependent ==
    (last.op = "add_many" /\ last.before = 0)
    => /\ \A c \in ChunkSizes :
             add_many([k \in Keys |-> {}], LockFree, Key, hist, c).store = store
       /\ full_slice(store, Key).status = "StopIteration"
       /\ Concat(full_slice(store, Key).pages) = ByTimestamp(PairSet(hist))

\* C12 (checked under SpecSlice): when the elements in range are no more than
\* the page size, get_slice yields exactly one page, holding every in-range
\* element as (timestamp, payload) in the order asked for and nothing else,
\* and then ends.
C12_SinglePageSlice ==
    (gen.pc \in {"all", "closed"} /\ gen.total <= gen.chunks_size)
    => /\ Len(gen.pages) = 1
       /\ gen.pages[1] = InRangeOrdered(gen, store[gen.name])
       /\ gen.pc = "closed" => gen.status = "StopIteration"
\* A descending slice with a lower bound has been read to its end: one page of
\* two elements out of a series of three.
C12_Witness ==
    /\ gen.pc = "closed" /\ gen.status = "StopIteration"
    /\ gen.total = 2 /\ gen.total <= gen.chunks_size
    /\ ~gen.asc /\ gen.start_timestamp # None
    /\ Len(gen.pages) = 1 /\ Len(gen.pages[1]) = 2
    /\ length(store[gen.name]) = 3

\* C13 (checked under SpecIter): in the default mode, iter(name) consumed to
\* its end produces every element of the series as (timestamp, payload), each
\* exactly once.
C13_IterEnumerates ==
    last.op = "iter"
    => LET got == last.ret[1]
       IN /\ Len(got) = length(Series)
          /\ {got[i] : i \in 1..Len(got)} = {<<e[1], loads(e[2])>> : e \in Series}

\* C14 (checked under SpecNames): add and add_many under a name that
\* validate_key refuses raise and leave the store as it was.
C14_InvalidNameFailsFast ==
    [][(last'.op \in {"add", "add_many"} /\ ~validate_key(last'.name))
       => (last'.outcome = "raised" /\ store' = store)]_vars

\* C15 (checked under SpecLog): after add(name, T1, P) and add(name, T2, P)
\* with T1 # T2 on an empty series, the series holds one element and it is
\* the first: get(name, T1) returns P and get(name, T2) returns nothing.
C15_FirstInsertKept ==
    (Len(hist) = 2 /\ hist[1][1] # hist[2][1] /\ hist[1][2] = hist[2][2])
    => /\ length(Series) = 1
       /\ get(store, Key, hist[1][1]) = Some(hist[1][2])
       /\ get(store, Key, hist[2][1]) = None

\* C16 (checked under SpecBulk, where hist is the batch of the call): add_many
\* of k pairs with distinct timestamps and payloads into an empty series
\* leaves all k pairs stored and the length k, also when k > max_length.
C16_BulkNeverEvicts ==
    (last.op = "add_many" /\ last.before = 0)
    => /\ Series = {<<hist[i][1], dumps(hist[i][2])>> : i \in 1..Len(hist)}
       /\ length(Series) = Len(hist)
       /\ \A i \in 1..Len(hist) : get(store, Key, hist[i][1]) = Some(hist[i][2])
\* A batch longer than max_length has gone in, one pair per transaction.
C16_Witness ==
    /\ last.op = "add_many" /\ last.before = 0 /\ last.n = 1
    /\ Len(hist) > max_length /\ length(Series) = Len(hist)

\* C19. add(name, T, P) on a series of length max_length with no element
\* scored T leaves the length at max_length, the only stored element gone
\* being the lowest-scored one, whatever P is.
C19_AddKeepsFull ==
    [][last'.op = "add" =>
       (\A timestamp \in Stamps, data \in Payloads :
          (/\ AddCall(Key, timestamp, data)
           /\ length(Series) = max_length
           /\ ~exist_timestamp(Series, timestamp))
          => /\ length(store'[Key]) = max_length
             /\ Series \ store'[Key] = Oldest(Series, 1))]_vars

\* C20 (checked under SpecGrow): on a series longer than max_length, add with
\* a timestamp and a payload the series does not hold inserts and evicts
\* nothing: the length grows by one and stays above max_length.
C20_NoEvictionAboveMax ==
    [][last'.op = "add" =>
       (\A timestamp \in Stamps, data \in WidePayloads :
          (/\ AddCall(Key, timestamp, data)
           /\ length(Series) > max_length
           /\ ~exist_timestamp(Series, timestamp)
           /\ zrank(Series, dumps(data)) = None)
          => /\ store'[Key] = Series \cup {<<timestamp, dumps(data)>>}
             /\ length(store'[Key]) = length(Series) + 1
             /\ length(store'[Key]) > max_length)]_vars
\* An add has inserted a new member into a series that was longer than
\* max_length, and nothing was evicted.
C20_Witness ==
    /\ last.op = "add" /\ last.ret = Some(1)
    /\ last.before > max_length /\ length(Series) = last.before + 1

\* Every thread has returned from its call.
AllDone == \A t \in Threads : threads[t].pc = "done"
\* The store that the call of a thread leaves when it runs alone.
Alone(st, call) ==
    CASE call.op = "add" -> add(st, LockFree, Key, call.timestamp, call.data).store
      [] call.op = "trim" -> trim(st, LockFree, Key, call.len).store
      [] call.op = "delete" ->
             delete(st, LockFree, Key, call.start_timestamp, call.end_timestamp).store
      [] OTHER -> st
\* The stores that the two calls leave when one runs after the other.
SerialOutcomes ==
    {Alone(Alone(store0, threads["t1"]), threads["t2"]),
     Alone(Alone(store0, threads["t2"]), threads["t1"])}
\* The lines of add between taking the lock and releasing it.
InAdd(t) == threads[t].op = "add" /\ threads[t].pc \in {"a44", "a45", "a46", "a47", "a_exit"}

\* C17 (checked under SpecAdds): two threads in add on one series are never
\* both inside the locked block, and when both have returned the store is one
\* that some serial order of the two calls leaves; two adds at one timestamp
\* with different payloads leave exactly one element at that timestamp, and
\* adds at distinct timestamps leave the series no longer than max_length.
C17_AddAtomic ==
    /\ ~(InAdd("t1") /\ InAdd("t2"))
    /\ AllDone =>
          /\ store \in SerialOutcomes
          /\ lock = LockFree
          /\ (/\ threads["t1"].timestamp = threads["t2"].timestamp
              /\ threads["t1"].data # threads["t2"].data)
             => Cardinality({e \in Series : e[1] = threads["t1"].timestamp}) = 1
          /\ threads["t1"].timestamp # threads["t2"].timestamp
             => length(Series) <= max_length
\* Two adds at one new timestamp with different payloads have both returned,
\* on a series that was full.
C17_Witness ==
    /\ AllDone
    /\ threads["t1"].op = "add" /\ threads["t2"].op = "add"
    /\ threads["t1"].timestamp = threads["t2"].timestamp
    /\ threads["t1"].data # threads["t2"].data
    /\ ~exist_timestamp(store0[Key], threads["t1"].timestamp)
    /\ length(store0[Key]) = max_length
    /\ Cardinality({e \in Series : e[1] = threads["t1"].timestamp}) = 1

\* C18 (checked under SpecTrim): when trim and an add or a delete of another
\* thread have both returned, the store is one that some serial order of the
\* two calls leaves.
C18_TrimAtomic ==
    AllDone => store \in SerialOutcomes

\* C11 (checked under SpecWatch): every step of a thread in add_many either
\* leaves the store alone or applies every pair of one chunk at once; the
\* transaction of a chunk applies the whole chunk when the series was not
\* written since the watch, and nothing when it was.
C11_ChunkAtomic ==
    [][\A t \in Threads :
         (threads[t].op = "add_many" /\ threads'[t].pc # threads[t].pc)
         => IF threads[t].pc = "m68"
            THEN LET item == Head(threads[t].items)
                     filter_data == [i \in 1..Len(item) |->
                                       <<item[i][1], dumps(item[i][2])>>]
                 IN IF threads[t].touched
                    THEN store' = store /\ last'.outcome = "aborted"
                    ELSE /\ store'[Key] = zadd_many(store[Key], filter_data)
                         /\ \A i \in 1..Len(filter_data) : filter_data[i] \in store'[Key]
                         /\ last'.outcome = "committed"
            ELSE store' = store]_vars
\* The transaction of a chunk of two pairs was aborted: the other thread wrote
\* the series between the watch and the commit, and none of the chunk is in.
C11_Witness ==
    /\ last.op = "exec" /\ last.outcome = "aborted" /\ last.n = 2
    /\ threads["t2"].pc = "done"
    /\ length(Series) = last.before

====
